---- MODULE Spec2Model ----
(***************************************************************************)
(* hexward: cube-coordinate hex grid library.                              *)
(*   hex_util.py  HexPoint arithmetic, ring enumeration, spiral indexing,  *)
(*                offset conversions, cube rounding                        *)
(*   hex_cell.py  HexCell (point, payload, cached pixel centre)            *)
(*   hex_map.py   HexMap (sparse dict HexPoint -> HexCell)                 *)
(*                                                                         *)
(* Spec      the HexMap state machine (set/get/remove/swap/fill/...).      *)
(* SpecUtil  calls of the pure functions of hex_util.py on bounded inputs. *)
(***************************************************************************)
EXTENDS Integers, Sequences, FiniteSets, TLC

VARIABLES
    grid,         \* HexMap._grid: function from HexPoint keys to HexCell records
    orientation,  \* HexMap._orientation, fixed at construction
    op,           \* name of the last call
    args,         \* its arguments
    outcome,      \* "ok" or the name of the exception it raised
    ret           \* its return value (<<>> when it returned None or raised)

vars == <<grid, orientation, op, args, outcome, ret>>

(* ----------------------------- bounds --------------------------------- *)
MaxDist == 3      \* operand points lie within this cube distance of the origin
MaxIndex == 40    \* spiral indices 0..MaxIndex
MaxRadius == 3    \* ring radii -2..MaxRadius
MaxOffset == 3    \* offset coordinates -MaxOffset..MaxOffset
MaxScale == 2     \* integer factors -MaxScale..MaxScale
MaxFrac == 6      \* fractional coordinates are n/FracDen, |n| <= MaxFrac
MaxFill == 2      \* fill_to_radius arguments -1..MaxFill

(* A call either returns a value or raises. *)
Return(v) == [exc |-> "ok", val |-> v]
Raise(e) == [exc |-> e, val |-> <<>>]

Abs(n) == IF n < 0 THEN -n ELSE n

(* ------------------------- hex_util.HexPoint -------------------------- *)
HexPoint(q, r, s) == [q |-> q, r |-> r, s |-> s]

HexPoint_add(self, other) ==
    HexPoint(self.q + other.q, self.r + other.r, self.s + other.s)

HexPoint_sub(self, other) ==
    HexPoint(self.q - other.q, self.r - other.r, self.s - other.s)

\* __mul__ with isinstance(other, HexPoint): component-wise product
HexPoint_mul_point(self, other) ==
    HexPoint(self.q * other.q, self.r * other.r, self.s * other.s)

\* __mul__ with isinstance(other, int)
HexPoint_mul_int(self, other) ==
    HexPoint(self.q * other, self.r * other, self.s * other)

CUBE_DIRECTIONS ==
    << HexPoint(1, 0, -1), HexPoint(0, 1, -1), HexPoint(-1, 1, 0),
       HexPoint(-1, 0, 1), HexPoint(0, -1, 1), HexPoint(1, -1, 0) >>

(* Python list subscript lst[i]: 0-based, a negative i counts from the    *)
(* end, anything outside -len..len-1 raises IndexError.                   *)
list_getitem(lst, i) ==
    IF 0 <= i /\ i < Len(lst) THEN Return(lst[i + 1])
    ELSE IF -Len(lst) <= i /\ i < 0 THEN Return(lst[Len(lst) + i + 1])
    ELSE Raise("IndexError")

cube_distance(a, b) ==
    (Abs(a.q - b.q) + Abs(a.r - b.r) + Abs(a.s - b.s)) \div 2

cube_neighbor(hex, direction) ==
    LET d == list_getitem(CUBE_DIRECTIONS, direction) IN
    IF d.exc # "ok" THEN d ELSE Return(HexPoint_add(hex, d.val))

(* The double loop of cube_ring: n points appended so far, side i = n     *)
(* div radius; append the point, then step to its neighbour on side i.    *)
RECURSIVE ring_walk(_, _, _, _)
ring_walk(results, point, n, radius) ==
    IF n = 6 * radius THEN results
    ELSE ring_walk(Append(results, point),
                   cube_neighbor(point, n \div radius).val, n + 1, radius)

\* mutation: the walk started from direction 5 instead of direction 4
cube_ring_start_dir5(center, radius) ==
    HexPoint_add(center, HexPoint_mul_int(CUBE_DIRECTIONS[5 + 1], radius))

cube_ring_start(center, radius) ==
    HexPoint_add(center, HexPoint_mul_int(CUBE_DIRECTIONS[4 + 1], radius))

cube_ring(center, radius) ==
    IF radius < 0 THEN Raise("ValueError")
    ELSE IF radius = 0 THEN Return(<<center>>)
    ELSE Return(ring_walk(<<>>, cube_ring_start(center, radius), 0, radius))

(* --------------------------- spiral index ----------------------------- *)
_spiral_index_start_of_ring(radius) ==
    IF radius = 0 THEN 0 ELSE 1 + 3 * radius * (radius - 1)

\* floor of the square root
isqrt(n) == CHOOSE k \in 0..n : k * k <= n /\ (k + 1) * (k + 1) > n

\* mutation: the radicand taken from index instead of index - 1
_spiral_index_to_radius_shifted(index) ==
    IF index = 0 THEN 0
    ELSE (3 + isqrt(9 + 12 * index)) \div 6

(* int((3 + (9 + 12*(index-1))**0.5) / 6) for index >= 1.  The radicand   *)
(* is >= 9, and floor((3 + y) / 6) = floor((3 + floor(y)) / 6) for real   *)
(* y >= 0, so the integer square root gives the same integer; the double  *)
(* square root is exact to well beyond the indices used here.             *)
_spiral_index_to_radius(index) ==
    IF index = 0 THEN 0
    ELSE (3 + isqrt(9 + 12 * (index - 1))) \div 6

\* position of the first element of lst equal to x, 0-based; -1 if none
RECURSIVE list_find(_, _, _)
list_find(lst, x, i) ==
    IF i >= Len(lst) THEN -1
    ELSE IF lst[i + 1] = x THEN i
    ELSE list_find(lst, x, i + 1)

cube_to_spiral(point) ==
    LET center == HexPoint(0, 0, 0)
        radius == cube_distance(point, center)
        ring_hexes == cube_ring(center, radius)
    IN  IF ring_hexes.exc # "ok" THEN ring_hexes
        ELSE LET i == list_find(ring_hexes.val, point, 0) IN
             IF i >= 0 THEN Return(i + _spiral_index_start_of_ring(radius))
             ELSE Raise("ValueError")

spiral_to_cube(index) ==
    LET center == HexPoint(0, 0, 0)
        radius == _spiral_index_to_radius(index)
        ringstart == _spiral_index_start_of_ring(radius)
        ring == cube_ring(center, radius)
    IN  IF ring.exc # "ok" THEN ring
        ELSE list_getitem(ring.val, index - ringstart)

(* ------------------------- angle conversions -------------------------- *)
_angle_to_math_angle(angle) == (-1 * (angle - 90)) % 360

_math_angle_to_angle(angle) == (-1 * (angle + 90)) % 360

(* ------------------------ offset conversions -------------------------- *)
(* (r - parity) / 2 is a true division of an even number: exact.  The     *)
(* results are offset pairs <<col, row>>.                                 *)
_cube_to_oddr(q, r, s) ==
    LET parity == r % 2
        col == q + (r - parity) \div 2
        row == r
    IN  <<col, row>>

_oddr_to_cube(x, y) ==
    LET parity == x % 2
        q == y - (x - parity) \div 2
        r == x
    IN  HexPoint(q, r, -q - r)

_cube_to_oddq(q, r, s) ==
    LET parity == q % 2
        col == q
        row == r + (q - parity) \div 2
    IN  <<col, row>>

_oddq_to_cube(x, y) ==
    LET parity == x % 2
        q == x
        r == y - (x - parity) \div 2
    IN  HexPoint(q, r, -q - r)

(* ----------------------------- cube_round ----------------------------- *)
(* Fractional coordinates are the rationals n / FracDen, held as n; with  *)
(* FracDen a power of two they are exact doubles.                         *)
FracDen == 4

\* Python round(n / FracDen): to nearest, halves to the even neighbour
py_round(n) ==
    LET f == n \div FracDen
        rem == n % FracDen
    IN  IF 2 * rem < FracDen THEN f
        ELSE IF 2 * rem > FracDen THEN f + 1
        ELSE IF f % 2 = 0 THEN f ELSE f + 1

\* frac_s is <<>> for the default None
cube_round(frac_q, frac_r, frac_s_arg) ==
    LET frac_s == IF frac_s_arg = <<>> THEN -frac_q - frac_r ELSE frac_s_arg[1]
        q == py_round(frac_q)
        r == py_round(frac_r)
        s == py_round(frac_s)
        q_diff == Abs(q * FracDen - frac_q)
        r_diff == Abs(r * FracDen - frac_r)
        s_diff == Abs(s * FracDen - frac_s)
    IN  IF q_diff > r_diff /\ q_diff > s_diff THEN HexPoint(-r - s, r, s)
        ELSE IF r_diff > s_diff THEN HexPoint(q, -q - s, s)
        ELSE HexPoint(q, r, -q - r)

(* ------------------------- bounded inputs ----------------------------- *)
origin == HexPoint(0, 0, 0)

\* the valid cube points (q + r + s = 0) within MaxDist of the origin
Points ==
    { p \in { HexPoint(q, r, -q - r) : q \in -MaxDist..MaxDist, r \in -MaxDist..MaxDist } :
        cube_distance(p, origin) <= MaxDist }

Indices == 0..MaxIndex
Radii == -2..MaxRadius
Directions == -8..8
Offsets == -MaxOffset..MaxOffset
Scales == -MaxScale..MaxScale
Fracs == -MaxFrac..MaxFrac
Angles == 0..359

IsZeroSum(p) == p.q + p.r + p.s = 0

(* ------------------- calls of the pure functions ---------------------- *)
\* The functions are pure: one call from the initial state covers every call.
Fresh == op = "init"

Returned(result) ==
    /\ outcome' = result.exc
    /\ ret' = result.val

Call_add ==
    \E a \in Points, b \in Points :
        /\ Fresh
        /\ op' = "add"
        /\ args' = <<a, b>>
        /\ Returned(Return(HexPoint_add(a, b)))
        /\ UNCHANGED <<grid, orientation>>

Call_sub ==
    \E a \in Points, b \in Points :
        /\ Fresh
        /\ op' = "sub"
        /\ args' = <<a, b>>
        /\ Returned(Return(HexPoint_sub(a, b)))
        /\ UNCHANGED <<grid, orientation>>

Call_mul_int ==
    \E a \in Points, k \in Scales :
        /\ Fresh
        /\ op' = "mul_int"
        /\ args' = <<a, k>>
        /\ Returned(Return(HexPoint_mul_int(a, k)))
        /\ UNCHANGED <<grid, orientation>>

Call_mul_point ==
    \E a \in Points, b \in Points :
        /\ Fresh
        /\ op' = "mul_point"
        /\ args' = <<a, b>>
        /\ Returned(Return(HexPoint_mul_point(a, b)))
        /\ UNCHANGED <<grid, orientation>>

Call_cube_neighbor ==
    \E p \in Points, d \in Directions :
        /\ Fresh
        /\ op' = "cube_neighbor"
        /\ args' = <<p, d>>
        /\ Returned(cube_neighbor(p, d))
        /\ UNCHANGED <<grid, orientation>>

Call_cube_ring ==
    \E c \in Points, k \in Radii :
        /\ Fresh
        /\ op' = "cube_ring"
        /\ args' = <<c, k>>
        /\ Returned(cube_ring(c, k))
        /\ UNCHANGED <<grid, orientation>>

Call_cube_to_spiral ==
    \E p \in Points :
        /\ Fresh
        /\ op' = "cube_to_spiral"
        /\ args' = <<p>>
        /\ Returned(cube_to_spiral(p))
        /\ UNCHANGED <<grid, orientation>>

Call_spiral_to_cube ==
    \E i \in Indices :
        /\ Fresh
        /\ op' = "spiral_to_cube"
        /\ args' = <<i>>
        /\ Returned(spiral_to_cube(i))
        /\ UNCHANGED <<grid, orientation>>

Call_cube_to_oddr ==
    \E p \in Points :
        /\ Fresh
        /\ op' = "_cube_to_oddr"
        /\ args' = <<p>>
        /\ Returned(Return(_cube_to_oddr(p.q, p.r, p.s)))
        /\ UNCHANGED <<grid, orientation>>

Call_oddr_to_cube ==
    \E x \in Offsets, y \in Offsets :
        /\ Fresh
        /\ op' = "_oddr_to_cube"
        /\ args' = <<x, y>>
        /\ Returned(Return(_oddr_to_cube(x, y)))
        /\ UNCHANGED <<grid, orientation>>

Call_cube_to_oddq ==
    \E p \in Points :
        /\ Fresh
        /\ op' = "_cube_to_oddq"
        /\ args' = <<p>>
        /\ Returned(Return(_cube_to_oddq(p.q, p.r, p.s)))
        /\ UNCHANGED <<grid, orientation>>

Call_oddq_to_cube ==
    \E x \in Offsets, y \in Offsets :
        /\ Fresh
        /\ op' = "_oddq_to_cube"
        /\ args' = <<x, y>>
        /\ Returned(Return(_oddq_to_cube(x, y)))
        /\ UNCHANGED <<grid, orientation>>

Call_cube_round ==
    \E fq \in Fracs, fr \in Fracs, fs \in {<<>>} \cup { <<n>> : n \in Fracs } :
        /\ Fresh
        /\ op' = "cube_round"
        /\ args' = <<fq, fr, fs>>
        /\ Returned(Return(cube_round(fq, fr, fs)))
        /\ UNCHANGED <<grid, orientation>>

Call_angle_to_math_angle ==
    \E a \in Angles :
        /\ Fresh
        /\ op' = "_angle_to_math_angle"
        /\ args' = <<a>>
        /\ Returned(Return(_angle_to_math_angle(a)))
        /\ UNCHANGED <<grid, orientation>>

Call_math_angle_to_angle ==
    \E a \in Angles :
        /\ Fresh
        /\ op' = "_math_angle_to_angle"
        /\ args' = <<a>>
        /\ Returned(Return(_math_angle_to_angle(a)))
        /\ UNCHANGED <<grid, orientation>>

(* ------------------------------ HexCell ------------------------------- *)
\* HexCell.__init__; _pixel_xy is <<>> for None.  The radius is the map's.
HexCell(orient, point, data) ==
    [point |-> point, data |-> data, pixel_xy |-> <<>>]

(* The pixel centre computed by HexCell.pixel_xy, as exact coefficients:  *)
(* pointy top  x = (sqrt(3)/2 * radius) * (2q + r),  y = (radius/2) * 3r  *)
(* flat top    x = (radius/2) * 3q,  y = (sqrt(3)/2 * radius) * (q + 2r)  *)
pixel_center(orient, point) ==
    IF orient = "POINTY_TOP"
    THEN <<2 * point.q + point.r, 3 * point.r>>
    ELSE <<3 * point.q, point.q + 2 * point.r>>

\* xy setter: the offset pair converted by the orientation's function
HexCell_xy_set(orient, cell, value) ==
    IF orient = "POINTY_TOP"
    THEN [cell EXCEPT !.point = _oddr_to_cube(value[1], value[2])]
    ELSE [cell EXCEPT !.point = _oddq_to_cube(value[1], value[2])]

\* pixel_xy getter: fills the cache when it is None
HexCell_pixel_xy(orient, cell) ==
    IF cell.pixel_xy = <<>>
    THEN [cell EXCEPT !.pixel_xy = pixel_center(orient, cell.point)]
    ELSE cell

clearcache(cell) == [cell EXCEPT !.pixel_xy = <<>>]

(* ------------------------------ HexMap -------------------------------- *)
(* A point argument is a HexPoint or a raw 3-tuple: [form, q, r, s].      *)
IsHexPoint(a) == a.form = "HexPoint"
AsHexPoint(a) == HexPoint(a.q, a.r, a.s)
PointArg(form, p) == [form |-> form, q |-> p.q, r |-> p.r, s |-> p.s]

(* key in dict, for a dict whose keys are HexPoints.  A tuple hashes like *)
(* the HexPoint of its components, but HexPoint.__eq__ returns            *)
(* NotImplemented for it and so does tuple.__eq__: it equals no key.      *)
dict_contains(d, a) == IsHexPoint(a) /\ AsHexPoint(a) \in DOMAIN d

dict_setitem(d, k, v) ==
    [x \in DOMAIN d \cup {k} |-> IF x = k THEN v ELSE d[x]]

dict_pop(d, a) ==
    IF dict_contains(d, a)
    THEN [x \in DOMAIN d \ {AsHexPoint(a)} |-> d[x]]
    ELSE d

\* __contains__: a non-HexPoint falls through to None, which `in` reads as False
HexMap_contains(g, a) ==
    IF IsHexPoint(a) THEN dict_contains(g, a) ELSE FALSE

HexMap_len(g) == Cardinality(DOMAIN g)

\* mutation: a lookup with a default, self._grid.get(point), returning None
HexMap_get_default(g, a) ==
    IF dict_contains(g, a) THEN Return(g[AsHexPoint(a)]) ELSE Return(<<>>)

\* get / __getitem__: self._grid[point]
HexMap_get(g, a) ==
    IF dict_contains(g, a) THEN Return(g[AsHexPoint(a)]) ELSE Raise("KeyError")

(* A payload argument is a plain value, [isCell |-> FALSE, value |-> v],  *)
(* or a HexCell, [isCell |-> TRUE, cell |-> c].                           *)
PlainPayload(v) == [isCell |-> FALSE, value |-> v]
CellPayload(c) == [isCell |-> TRUE, cell |-> c]

\* if isinstance(data, HexCell): data = data.data
unwrap(payload) == IF payload.isCell THEN payload.cell.data ELSE payload.value

(* set: a HexCell payload is unwrapped to its data, a tuple point is      *)
(* converted to a HexPoint, and a new cell replaces whatever was there.   *)
HexMap_set(g, orient, a, payload) ==
    LET data == unwrap(payload)
        point == AsHexPoint(a)
    IN  dict_setitem(g, point, HexCell(orient, point, data))

HexMap_remove(g, a) == dict_pop(g, a)

\* mutation: the two cells exchanged whole, point and cache included
HexMap_swap_cells(g, a1, a2) ==
    IF ~HexMap_contains(g, a1) \/ ~HexMap_contains(g, a2)
    THEN Raise("ValueError")
    ELSE LET p1 == AsHexPoint(a1)
             p2 == AsHexPoint(a2)
         IN  Return([g EXCEPT ![p1] = g[p2], ![p2] = g[p1]])

HexMap_swap(g, a1, a2) ==
    IF ~HexMap_contains(g, a1) \/ ~HexMap_contains(g, a2)
    THEN Raise("ValueError")
    ELSE LET p1 == AsHexPoint(a1)
             p2 == AsHexPoint(a2)
             swapped == [g EXCEPT ![p1].data = g[p2].data, ![p2].data = g[p1].data]
             cleared1 == [swapped EXCEPT ![p1] = clearcache(swapped[p1])]
         IN  Return([cleared1 EXCEPT ![p2] = clearcache(cleared1[p2])])

\* the inner loop of fill_to_radius over one ring, from its k-th point on
RECURSIVE fill_ring(_, _, _, _)
fill_ring(g, orient, ring, k) ==
    IF k > Len(ring) THEN g
    ELSE LET a == PointArg("HexPoint", ring[k]) IN
         fill_ring(IF ~HexMap_contains(g, a)
                   THEN HexMap_set(g, orient, a, PlainPayload("None"))
                   ELSE g,
                   orient, ring, k + 1)

\* mutation: the radius itself included, range(radius + 1)
RECURSIVE fill_rings_inclusive(_, _, _, _)
fill_rings_inclusive(g, orient, i, radius) ==
    IF i > radius THEN g
    ELSE fill_rings_inclusive(fill_ring(g, orient, cube_ring(origin, i).val, 1),
                              orient, i + 1, radius)

\* for i in range(radius), from ring i on
RECURSIVE fill_rings(_, _, _, _)
fill_rings(g, orient, i, radius) ==
    IF i >= radius THEN g
    ELSE fill_rings(fill_ring(g, orient, cube_ring(origin, i).val, 1),
                    orient, i + 1, radius)

fill_to_radius(g, orient, radius) == fill_rings(g, orient, 0, radius)

(* ---------------------- inputs of the map calls ----------------------- *)
MapPoints == {origin, HexPoint(1, 0, -1)}
Forms == {"HexPoint", "tuple"}
PointArgs == { PointArg(f, p) : f \in Forms, p \in MapPoints }
Payloads == {"None", "X", "Y"}
PayloadArgs ==
    { PlainPayload(v) : v \in Payloads }
        \cup { CellPayload(HexCell("POINTY_TOP", origin, v)) : v \in {"X"} }
OffsetPairs == {<<0, 0>>, <<1, 0>>}
FillRadii == -1..MaxFill

\* HexMap.__init__: an empty grid, either orientation
Init ==
    /\ grid = <<>>
    /\ orientation \in {"POINTY_TOP", "FLAT_TOP"}
    /\ op = "init"
    /\ args = <<>>
    /\ outcome = "ok"
    /\ ret = <<>>

(* --------------------------- the map calls ---------------------------- *)
Set ==
    \E a \in PointArgs, payload \in PayloadArgs :
        /\ grid' = HexMap_set(grid, orientation, a, payload)
        /\ op' = "set"
        /\ args' = <<a, payload>>
        /\ outcome' = "ok"
        /\ ret' = grid'[AsHexPoint(a)]
        /\ UNCHANGED orientation

Get ==
    \E a \in PointArgs :
        /\ op' = "get"
        /\ args' = <<a>>
        /\ Returned(HexMap_get(grid, a))
        /\ UNCHANGED <<grid, orientation>>

Remove ==
    \E a \in PointArgs :
        /\ grid' = HexMap_remove(grid, a)
        /\ op' = "remove"
        /\ args' = <<a>>
        /\ outcome' = "ok"
        /\ ret' = <<>>
        /\ UNCHANGED orientation

Swap ==
    \E a1 \in PointArgs, a2 \in PointArgs :
        LET result == HexMap_swap(grid, a1, a2) IN
        /\ grid' = IF result.exc = "ok" THEN result.val ELSE grid
        /\ op' = "swap"
        /\ args' = <<a1, a2>>
        /\ outcome' = result.exc
        /\ ret' = <<>>
        /\ UNCHANGED orientation

FillToRadius ==
    \E n \in FillRadii :
        /\ grid' = fill_to_radius(grid, orientation, n)
        /\ op' = "fill_to_radius"
        /\ args' = <<n>>
        /\ outcome' = "ok"
        /\ ret' = <<>>
        /\ UNCHANGED orientation

(* Calls on a cell obtained from the map: the cell stored under key k.    *)
CellKeys == DOMAIN grid \cap MapPoints

CellPointSet ==
    \E k \in CellKeys, value \in MapPoints :
        /\ grid' = [grid EXCEPT ![k].point = value]
        /\ op' = "cell.point="
        /\ args' = <<k, value>>
        /\ outcome' = "ok"
        /\ ret' = <<>>
        /\ UNCHANGED orientation

CellXySet ==
    \E k \in CellKeys, value \in OffsetPairs :
        /\ grid' = [grid EXCEPT ![k] = HexCell_xy_set(orientation, grid[k], value)]
        /\ op' = "cell.xy="
        /\ args' = <<k, value>>
        /\ outcome' = "ok"
        /\ ret' = <<>>
        /\ UNCHANGED orientation

\* the xy getter passes the point as the single argument of a 3-argument function
CellXyGet ==
    \E k \in CellKeys :
        /\ op' = "cell.xy"
        /\ args' = <<k>>
        /\ outcome' = "TypeError"
        /\ ret' = <<>>
        /\ UNCHANGED <<grid, orientation>>

CellDataSet ==
    \E k \in CellKeys, value \in Payloads :
        /\ grid' = [grid EXCEPT ![k].data = value]
        /\ op' = "cell.data="
        /\ args' = <<k, value>>
        /\ outcome' = "ok"
        /\ ret' = <<>>
        /\ UNCHANGED orientation

CellPixelXy ==
    \E k \in CellKeys :
        /\ grid' = [grid EXCEPT ![k] = HexCell_pixel_xy(orientation, grid[k])]
        /\ op' = "cell.pixel_xy"
        /\ args' = <<k>>
        /\ outcome' = "ok"
        /\ ret' = grid'[k].pixel_xy
        /\ UNCHANGED orientation

Next ==
    \/ Set
    \/ Get
    \/ Remove
    \/ Swap
    \/ FillToRadius
    \/ CellPointSet
    \/ CellXySet
    \/ CellXyGet
    \/ CellDataSet
    \/ CellPixelXy

Spec == Init /\ [][Next]_vars

NextUtil ==
    \/ Call_add
    \/ Call_sub
    \/ Call_mul_int
    \/ Call_mul_point
    \/ Call_cube_neighbor
    \/ Call_cube_ring
    \/ Call_cube_to_spiral
    \/ Call_spiral_to_cube
    \/ Call_cube_to_oddr
    \/ Call_oddr_to_cube
    \/ Call_cube_to_oddq
    \/ Call_oddq_to_cube
    \/ Call_cube_round
    \/ Call_angle_to_math_angle
    \/ Call_math_angle_to_angle

SpecUtil == Init /\ [][NextUtil]_vars

(* ======================= properties of the map ======================== *)

(* C3: in every state reachable by set, remove, swap and fill_to_radius   *)
(* together with point reassignment (point or xy setter) on cells of the  *)
(* map, every key of the mapping equals the point of the cell under it.   *)
KeyEqualsPoint ==
    \A k \in DOMAIN grid : grid[k].point = k

(* C4: swap(p1, p2) on a grid that contains both points exchanges the     *)
(* payloads of the two cells and changes nothing else: the key set, each  *)
(* cell's point and every other cell's payload are as before (and         *)
(* swap(p, p) leaves the payload of p as it was).                         *)
SwapExchangesPayloads ==
    [][ (/\ op' = "swap"
         /\ IsHexPoint(args'[1]) /\ AsHexPoint(args'[1]) \in DOMAIN grid
         /\ IsHexPoint(args'[2]) /\ AsHexPoint(args'[2]) \in DOMAIN grid)
        => LET p1 == AsHexPoint(args'[1])
               p2 == AsHexPoint(args'[2])
           IN  /\ outcome' = "ok"
               /\ DOMAIN grid' = DOMAIN grid
               /\ \A k \in DOMAIN grid :
                     /\ grid'[k].point = grid[k].point
                     /\ grid'[k].data = IF k = p1 THEN grid[p2].data
                                        ELSE IF k = p2 THEN grid[p1].data
                                        ELSE grid[k].data ]_vars

\* two cells with different payloads have been swapped beside a third cell
SwapWitness ==
    /\ op = "swap"
    /\ outcome = "ok"
    /\ args[1] # args[2]
    /\ grid[AsHexPoint(args[1])].data # grid[AsHexPoint(args[2])].data
    /\ grid[AsHexPoint(args[1])].point # AsHexPoint(args[1])
    /\ Cardinality(DOMAIN grid) >= 3

\* the points at cube distance < n from the origin
Disc(n) ==
    { p \in { HexPoint(q, r, -q - r) : q \in -n..n, r \in -n..n } :
        cube_distance(p, origin) < n }

(* C5: after fill_to_radius(n), for any integer n, the key set is the     *)
(* previous key set united with every point at cube distance < n from the *)
(* origin, and every cell present before keeps its payload; on an empty   *)
(* grid fill_to_radius(2) yields exactly 7 cells.                         *)
FillAddsDisc ==
    [][ op' = "fill_to_radius"
        => /\ outcome' = "ok"
           /\ DOMAIN grid' = DOMAIN grid \cup Disc(args'[1])
           /\ \A k \in DOMAIN grid : grid'[k].data = grid[k].data
           /\ (DOMAIN grid = {} /\ args'[1] = 2) => HexMap_len(grid') = 7 ]_vars

\* a fill that added cells around a cell holding a payload
FillWitness ==
    /\ op = "fill_to_radius"
    /\ args[1] >= 2
    /\ HexMap_len(grid) >= 7
    /\ \E k \in DOMAIN grid : grid[k].data = "X"

(* C6: for a point given as a HexPoint or as the raw 3-tuple: after       *)
(* set(point, payload) get(point) returns a cell with that payload and    *)
(* the containment test on point is true; after remove(point) of a point  *)
(* of the grid the containment test is false and the count is one less;   *)
(* remove of a point not in the grid leaves the grid unchanged.           *)
SetGetRemove ==
    [][ /\ op' = "set" =>
              /\ HexMap_contains(grid', args'[1])
              /\ HexMap_get(grid', args'[1]).exc = "ok"
              /\ HexMap_get(grid', args'[1]).val.data = unwrap(args'[2])
        /\ op' = "remove" =>
              IF AsHexPoint(args'[1]) \in DOMAIN grid
              THEN /\ ~HexMap_contains(grid', args'[1])
                   /\ HexMap_len(grid') = HexMap_len(grid) - 1
              ELSE grid' = grid ]_vars

(* C10: swap with a point that is not in the grid, and get of a point     *)
(* that is not in the grid, raise at that call (ValueError, KeyError) and *)
(* leave the grid unchanged; swap with both points in the grid does not   *)
(* raise.  The points are HexPoints.                                      *)
NotFoundLeavesGrid ==
    [][ /\ (op' = "swap" /\ IsHexPoint(args'[1]) /\ IsHexPoint(args'[2])) =>
              IF AsHexPoint(args'[1]) \in DOMAIN grid /\ AsHexPoint(args'[2]) \in DOMAIN grid
              THEN outcome' = "ok"
              ELSE outcome' = "ValueError" /\ grid' = grid
        /\ (op' = "get" /\ IsHexPoint(args'[1]) /\ AsHexPoint(args'[1]) \notin DOMAIN grid) =>
              outcome' = "KeyError" /\ grid' = grid /\ ret' = <<>> ]_vars

\* a swap naming one present and one absent point has raised
NotFoundWitness ==
    /\ op = "swap"
    /\ outcome = "ValueError"
    /\ IsHexPoint(args[1]) /\ AsHexPoint(args[1]) \in DOMAIN grid
    /\ IsHexPoint(args[2]) /\ AsHexPoint(args[2]) \notin DOMAIN grid
    /\ grid[AsHexPoint(args[1])].data = "X"

(* C11: the cached pixel centre never goes stale: after any sequence of   *)
(* pixel_xy reads, point reassignments (point or xy setter), payload      *)
(* reassignments and grid swaps, with no clearcache call by the caller,   *)
(* the value pixel_xy returns is the one computed from the cell's current *)
(* point.                                                                 *)
PixelCacheFresh ==
    op = "cell.pixel_xy" =>
        ret = pixel_center(orientation, grid[args[1]].point)

(* =================== properties of the pure functions ================= *)

(* C1: the spiral mapping is a bijection: for every valid cube point p    *)
(* within MaxDist of the origin cube_to_spiral(p) returns (it does not    *)
(* raise "Hex not found in ring") and spiral_to_cube of the result is p;  *)
(* for every index i in 0..MaxIndex spiral_to_cube(i) returns and         *)
(* cube_to_spiral of the result is i.                                     *)
SpiralBijection ==
    /\ op = "cube_to_spiral" =>
          /\ outcome = "ok"
          /\ spiral_to_cube(ret).exc = "ok"
          /\ spiral_to_cube(ret).val = args[1]
    /\ op = "spiral_to_cube" =>
          /\ outcome = "ok"
          /\ cube_to_spiral(ret).exc = "ok"
          /\ cube_to_spiral(ret).val = args[1]

\* an index in the second ring or beyond has been mapped to its point
SpiralWitness ==
    /\ op = "spiral_to_cube"
    /\ outcome = "ok"
    /\ args[1] >= 7
    /\ cube_distance(ret, origin) >= 2

(* C2: offset -> cube -> offset returns the offset pair (x, y), and       *)
(* cube -> offset -> cube returns the cube point, for the pointy-top pair *)
(* (_oddr_to_cube / _cube_to_oddr) and for the flat-top pair              *)
(* (_oddq_to_cube / _cube_to_oddq).                                       *)
OffsetRoundTrip ==
    /\ op = "_oddr_to_cube" => _cube_to_oddr(ret.q, ret.r, ret.s) = args
    /\ op = "_cube_to_oddr" => _oddr_to_cube(ret[1], ret[2]) = args[1]
    /\ op = "_oddq_to_cube" => _cube_to_oddq(ret.q, ret.r, ret.s) = args
    /\ op = "_cube_to_oddq" => _oddq_to_cube(ret[1], ret[2]) = args[1]

(* C7: cube_neighbor(point, d) returns point + CUBE_DIRECTIONS[d] for d   *)
(* in 0..5, and raises, returning no point, for every other integer d     *)
(* (d >= 6 and d < 0 alike).                                              *)
NeighborContract ==
    op = "cube_neighbor" =>
        IF args[2] \in 0..5
        THEN /\ outcome = "ok"
             /\ ret = HexPoint_add(args[1], CUBE_DIRECTIONS[args[2] + 1])
        ELSE outcome # "ok"

AllDistinct(lst) ==
    \A i, j \in 1..Len(lst) : i # j => lst[i] # lst[j]

(* C8: cube_ring(c, 0) = [c]; for k >= 1 cube_ring(c, k) has exactly 6*k  *)
(* elements, pairwise distinct, each at cube distance exactly k from c;   *)
(* for k < 0 cube_ring raises.                                            *)
RingContract ==
    op = "cube_ring" =>
        LET c == args[1]
            k == args[2]
        IN  /\ k < 0 => outcome = "ValueError"
            /\ k = 0 => outcome = "ok" /\ ret = <<c>>
            /\ k >= 1 =>
                  /\ outcome = "ok"
                  /\ Len(ret) = 6 * k
                  /\ AllDistinct(ret)
                  /\ \A i \in 1..Len(ret) : cube_distance(c, ret[i]) = k

\* a ring of radius 2 or more around a centre other than the origin
RingWitness ==
    /\ op = "cube_ring"
    /\ outcome = "ok"
    /\ args[1] # origin
    /\ args[2] >= 2
    /\ Len(ret) = 6 * args[2]

(* C9: every HexPoint the point operations produce from zero-sum operands *)
(* (+, -, * by an integer, * by another point, cube_neighbor, cube_ring,  *)
(* spiral_to_cube, cube_round, offset-to-cube) satisfies q + r + s = 0.   *)
ZeroSumPreserved ==
    outcome = "ok" =>
        /\ op \in {"add", "sub", "mul_int", "mul_point", "cube_neighbor",
                   "spiral_to_cube", "cube_round", "_oddr_to_cube",
                   "_oddq_to_cube"} => IsZeroSum(ret)
        /\ op = "cube_ring" => \A i \in 1..Len(ret) : IsZeroSum(ret[i])

(* C12: the two angle conversions are exact inverses: for every integer   *)
(* angle a in 0..359, _angle_to_math_angle(a) = (90 - a) mod 360,         *)
(* _math_angle_to_angle(_angle_to_math_angle(a)) = a and                  *)
(* _angle_to_math_angle(_math_angle_to_angle(a)) = a.                     *)
AngleInverse ==
    /\ op = "_angle_to_math_angle" =>
          /\ ret = (90 - args[1]) % 360
          /\ _math_angle_to_angle(ret) = args[1]
    /\ op = "_math_angle_to_angle" =>
          _angle_to_math_angle(ret) = args[1]

====
